---- MODULE Spec2Model ----
(***************************************************************************)
(* CLiMF (orangecontrib/recommendation/climf.py): the SGD training loop of *)
(* CLiMFLearner.matrix_factorization and the ranking of CLiMFModel.predict.*)
(*                                                                         *)
(* Numbers.  numpy's float64 values are modelled in fixed point: the       *)
(* integer n stands for n / Scale.  A division by zero, which numpy        *)
(* answers with inf or nan, gives NonFinite, and NonFinite absorbs every   *)
(* later operation.                                                        *)
(*                                                                         *)
(* Indices are 0-based as in the source (users 0..NumUsers-1, items        *)
(* 0..NumItems-1); rows of a table and components of a factor vector are   *)
(* TLA+ sequences, so column c of the source is component c+1 here.        *)
(***************************************************************************)
EXTENDS Integers, Sequences, FiniteSets, TLC

\* ---------------------------------------------------------------- bounds
NumUsers == 2
NumItems == 2
MaxRows == 2
MaxSteps == 2
MaxBatch == 2
Scale == 10000

\* ------------------------------------------------------ program constants
K == 2
SampleCap == 1000

Users == 0 .. (NumUsers - 1)
ItemIds == 0 .. (NumItems - 1)
Dims == 1 .. K
None == "None"
\* top_k=None, among the numbers a top_k can be
NoTopK == 0 - 1

\* ------------------------------------------------------------ arithmetic
NonFinite == 0 - 2^30
Fin(a) == a # NonFinite
Add(a, b) == IF Fin(a) /\ Fin(b) THEN a + b ELSE NonFinite
Sub(a, b) == IF Fin(a) /\ Fin(b) THEN a - b ELSE NonFinite
Mul(a, b) == IF Fin(a) /\ Fin(b) THEN (a * b) \div Scale ELSE NonFinite
Div(a, b) == IF Fin(a) /\ Fin(b) /\ b # 0 THEN (a * Scale) \div b ELSE NonFinite
Neg(a) == Sub(0, a)

\* np.exp: the Taylor polynomial of degree 4 (arguments stay within [-1, 1])
Exp(y) ==
    IF ~Fin(y) THEN NonFinite
    ELSE Scale + Mul(y, Scale + Mul(y \div 2, Scale + Mul(y \div 3, Scale + (y \div 4))))

\* scipy.special.expit
sigmoid(a) == Div(Scale, Add(Scale, Exp(Neg(a))))

g(a) == sigmoid(a)

dg(a) ==
    LET ex == Exp(Neg(a))
    IN Div(ex, Mul(Add(Scale, ex), Add(Scale, ex)))

\* ---------------------------------------------------------------- vectors
RECURSIVE SumSeq(_)
SumSeq(s) == IF s = <<>> THEN 0 ELSE Add(s[1], SumSeq(Tail(s)))

VAdd(a, b) == [k \in Dims |-> Add(a[k], b[k])]
VSub(a, b) == [k \in Dims |-> Sub(a[k], b[k])]
VScale(c, a) == [k \in Dims |-> Mul(c, a[k])]
VZero == [k \in Dims |-> 0]
VFin(a) == \A k \in Dims : Fin(a[k])

\* <a, b> with a single rounding: sum of the exact products, then the scale
Dot(a, b) ==
    IF VFin(a) /\ VFin(b)
    THEN SumSeq([k \in Dims |-> a[k] * b[k]]) \div Scale
    ELSE NonFinite

RECURSIVE VSum(_)
VSum(s) == IF s = <<>> THEN VZero ELSE VAdd(s[1], VSum(Tail(s)))

\* ------------------------------------------------------------------ state
VARIABLES
    pc,        \* position in fit_storage / matrix_factorization
    steps, alpha, beta, verbose,      \* CLiMFLearner.__init__
    warned,    \* warnings.warn was called (fit_storage)
    data,      \* data.X of the preprocessed table: a sequence of rows
    order,     \* self.order = (user column, item column), 1-based here
    sample,    \* train_sample_users (only drawn when verbose)
    step, i, j,            \* the three loop counters
    items, f, dU, dV,      \* locals of one user's turn
    U, V,      \* the factor matrices; self.U / self.V of the model afterwards
    quiet,     \* the same run with verbose = False: [U, V, f, dU, dV]
    turns,     \* history: the users whose turn was taken in the current epoch
    mrr,       \* the MRR values printed so far
    tie,       \* how this build's argsort orders equal scores
    arr,       \* the caller's own index array (np.ndarray), a sequence of rows
    tab,       \* the caller's Table: data.X, floats in half units
    X,         \* predict's local X (the user column after line 274)
    top_k,     \* the top_k of the last call
    given,     \* history: the user column of the last call's argument, as passed
    src,       \* what the model was last called on: "array", "table" or None
    raised,    \* the exception the last call ended with, or None
    result     \* what the last call returned

trainVars == <<pc, steps, alpha, beta, verbose, warned, data, order, sample,
               step, i, j, items, f, dU, dV, quiet, turns, mrr>>
callVars == <<arr, tab, X, top_k, given, src, raised, result>>
vars == <<trainVars, U, V, tie, callVars>>

\* ------------------------------------------------------- inputs (bounded)
Orders == {<<1, 2>>, <<2, 1>>}
Row(ord, u, it) == [c \in 1 .. 2 |-> IF c = ord[1] THEN u ELSE it]

\* The interaction tables: up to MaxRows rows, the rows of a user together (a
\* table whose rows of different users interleave gives the same ItemsOf)
Tables(ord) ==
    UNION {{[p \in 1 .. n |-> Row(ord, us[p], its[p])] :
               us \in {s \in [1 .. n -> Users] : \A p \in 1 .. (n - 1) : s[p] <= s[p + 1]},
               its \in [1 .. n -> ItemIds]} : n \in 0 .. MaxRows}
Alphas == {0, Scale \div 2}
Betas == {Scale \div 2}
\* What a run starts from: the column order format_data.preprocess reports and
\* the seed of np.random
Draws == {[order |-> <<1, 2>>, seed |-> 0], [order |-> <<2, 1>>, seed |-> 1]}
TiePolicies == {"low index first", "high index first"}

\* 0.01 * np.random.rand(n, K): entries in [0, 0.01), one matrix per seed
InitMatrix(n, seed, salt) ==
    [r \in 0 .. (n - 1) |->
        [k \in Dims |-> (17 * (seed + 1) * (7 * r + 3 * k + salt)) % (Scale \div 100)]]

Identity(n) == [p \in 1 .. n |-> p - 1]
Reverse(s) == [p \in 1 .. Len(s) |-> s[Len(s) + 1 - p]]
Min(a, b) == IF a <= b THEN a ELSE b

\* What a verbose run draws and runs on: the sample, and the build's argsort
Reports(n) ==
    {<<Identity(Min(n, SampleCap)), "low index first">>,
     <<Reverse(Identity(Min(n, SampleCap))), "high index first">>}

\* ------------------------------------------------------------ one user turn
\* data.X[data.X[:, order[0]] == i][:, order[1]]
ItemsOf(Xd, ord, u) ==
    LET rows == SelectSeq(Xd, LAMBDA r : r[ord[1]] = u)
    IN [p \in 1 .. Len(rows) |-> rows[p][ord[2]]]

\* np.einsum('j,ij->i', U[i], V[items])
Scores(Ui, Vm, its) == [p \in 1 .. Len(its) |-> Dot(Ui, Vm[its[p]])]

\* (a sign slip: dU = beta * U[i])
InitUserGradPlus(b, Ui) == VScale(b, Ui)

\* dU = -beta * U[i]
InitUserGrad(b, Ui) == VScale(Neg(b), Ui)

\* dV = g(-f[j]) - beta * V[w]   (the scalar is broadcast over the K components)
DirectGrad(fm, jj, b, Vw) == [k \in Dims |-> Sub(g(Neg(fm[jj + 1])), Mul(b, Vw[k]))]

\* vec1 = dg(f[j] - f) * (1/(1 - g(f - f[j])) - 1/(1 - g(f[j] - f)))
Vec1(fm, jj) ==
    [p \in 1 .. Len(fm) |->
        Mul(dg(Sub(fm[jj + 1], fm[p])),
            Sub(Div(Scale, Sub(Scale, g(Sub(fm[p], fm[jj + 1])))),
                Div(Scale, Sub(Scale, g(Sub(fm[jj + 1], fm[p]))))))]

\* np.einsum('i,j->ij', vec1, U[i]).sum(axis=0)
TermI(fm, jj, Ui) ==
    LET v1 == Vec1(fm, jj)
    IN VSum([p \in 1 .. Len(fm) |-> VScale(v1[p], Ui)])

\* vec3 = dg(f - f[j]) / (1 - g(f - f[j]))
Vec3(fm, jj) ==
    [p \in 1 .. Len(fm) |->
        Div(dg(Sub(fm[p], fm[jj + 1])), Sub(Scale, g(Sub(fm[p], fm[jj + 1]))))]

\* np.einsum('ij,i->ij', V[items[j]] - V[items], vec3).sum(axis=0)
TermII(Vm, its, fm, jj) ==
    LET v3 == Vec3(fm, jj)
    IN VSum([p \in 1 .. Len(its) |-> VScale(v3[p], VSub(Vm[its[jj + 1]], Vm[its[p]]))])

\* V[w] += alpha * dV, with dV the direct term plus term I
UpdateV(Vm, w, a, dVm, fm, jj, Ui) ==
    [Vm EXCEPT ![w] = VAdd(@, VScale(a, VAdd(dVm, TermI(fm, jj, Ui))))]

\* dU += g(-f[j]) * V[w];  dU += term II    (Vm is V after the update of V[w])
AccumulateU(dUm, Vm, its, fm, jj) ==
    VAdd(VAdd(dUm, VScale(g(Neg(fm[jj + 1])), Vm[its[jj + 1]])), TermII(Vm, its, fm, jj))

\* U[i] += alpha * dU
UpdateU(Um, u, a, dUm) == [Um EXCEPT ![u] = VAdd(@, VScale(a, dUm))]

\* (an early stop: the loop gives up after its first epoch)
MoreEpochsEarly(st, n) == st < n /\ st < 1

\* range(steps), range(len(U)), range(len(items)): is there another iteration
MoreEpochs(st, n) == st < n
MoreUsers(u, Um) == u < Cardinality(DOMAIN Um)
MoreItems(jj, its) == jj < Len(its)

\* One user's turn, lines 156-160: the gradient accumulator, the user's items
\* and their scores, all read from U and V as they stand now
user_begin(Um, Vm, Xd, ord, u, b) ==
    LET its == ItemsOf(Xd, ord, u)
    IN [items |-> its, f |-> Scores(Um[u], Vm, its), dU |-> InitUserGrad(b, Um[u])]

\* Lines 163-165
item_grad(Vm, fm, its, jj, b) == DirectGrad(fm, jj, b, Vm[its[jj + 1]])

\* (dU reads the row of V as it was before this item's update)
item_apply_stale(Um, Vm, fm, dUm, dVm, its, jj, u, a) ==
    LET Vn == UpdateV(Vm, its[jj + 1], a, dVm, fm, jj, Um[u])
    IN [V |-> Vn, dU |-> AccumulateU(dUm, Vm, its, fm, jj), f |-> fm]

\* Lines 168-178: V[w] is written first, dU then reads the written row; f is
\* left as it is
item_apply(Um, Vm, fm, dUm, dVm, its, jj, u, a) ==
    LET Vn == UpdateV(Vm, its[jj + 1], a, dVm, fm, jj, Um[u])
    IN [V |-> Vn, dU |-> AccumulateU(dUm, Vn, its, fm, jj), f |-> fm]

\* (the learning rate is dropped: U[i] += dU)
user_end_unscaled(Um, u, a, dUm) == UpdateU(Um, u, Scale, dUm)

\* Line 180
user_end(Um, u, a, dUm) == UpdateU(Um, u, a, dUm)

\* ------------------------------------------------------------------ ranking
\* np.dot(U[users], V.T): one row of scores
ScoreRow(Ui, Vm) == [it \in DOMAIN Vm |-> Dot(Ui, Vm[it])]

\* np.argsort of one row: ascending scores; equal scores in the order of
\* this build's sort
Before(sc, a, b, policy) ==
    \/ sc[a] < sc[b]
    \/ sc[a] = sc[b] /\ IF policy = "low index first" THEN a < b ELSE a > b

ArgSort(sc, policy) ==
    [p \in 1 .. Cardinality(DOMAIN sc) |->
        CHOOSE it \in DOMAIN sc :
            Cardinality({o \in DOMAIN sc : Before(sc, o, it, policy)}) = p - 1]

\* np.fliplr(np.argsort(np.dot(U[users], V.T)))
Ranked(Um, Vm, users, policy) ==
    [r \in 1 .. Len(users) |-> Reverse(ArgSort(ScoreRow(Um[users[r]], Vm), policy))]

\* evaluation.MeanReciprocalRank(predictions_sorted, all_items_u)
ReciprocalRank(ranking, relevant) ==
    LET hits == {p \in 1 .. Len(ranking) : \E q \in 1 .. Len(relevant) : relevant[q] = ranking[p]}
    IN IF hits = {} THEN 0
       ELSE Scale \div (CHOOSE p \in hits : \A q \in hits : p <= q)

MeanReciprocalRank(rankings, relevant) ==
    IF Len(rankings) = 0 THEN 0
    ELSE SumSeq([r \in 1 .. Len(rankings) |-> ReciprocalRank(rankings[r], relevant[r])])
             \div Len(rankings)

\* (the sampled rows are taken out of U in place: U[:] = U[test_users])
compute_mrr_reorders(Xd, ord, Um, Vm, test_users, policy) ==
    [MRR |-> 0,
     U |-> [u \in DOMAIN Um |-> IF u + 1 <= Len(test_users) THEN Um[test_users[u + 1]] ELSE Um[u]],
     V |-> Vm]

\* compute_mrr: the value it returns, and U and V as it leaves them (they are
\* passed by reference)
compute_mrr(Xd, ord, Um, Vm, test_users, policy) ==
    LET predictions_sorted == Ranked(Um, Vm, test_users, policy)
        all_items_u == [r \in 1 .. Len(test_users) |-> ItemsOf(Xd, ord, test_users[r])]
    IN [MRR |-> MeanReciprocalRank(predictions_sorted, all_items_u), U |-> Um, V |-> Vm]

\* ----------------------------------------------------------------- training
NoCall == /\ X = <<>> /\ top_k = NoTopK /\ given = <<>>
          /\ src = None /\ raised = None /\ result = <<>>

\* CLiMFLearner.__init__
InitFit ==
    /\ pc = "new"
    /\ steps \in 1 .. MaxSteps
    /\ alpha \in Alphas
    /\ beta \in Betas
    /\ verbose \in BOOLEAN
    /\ tie = "low index first"
    /\ warned = FALSE
    /\ data = <<>> /\ order = <<1, 2>> /\ sample = <<>>
    /\ step = 0 /\ i = 0 /\ j = 0
    /\ items = <<>> /\ f = <<>> /\ dU = VZero /\ dV = VZero
    /\ U = None /\ V = None
    /\ quiet = None
    /\ turns = <<>> /\ mrr = <<>>
    /\ arr = <<>> /\ tab = <<>>
    /\ NoCall

\* fit_storage up to the SGD loop: the warning, format_data.preprocess, the
\* random start of U and V, the users sampled for the reports
FitStorage ==
    /\ pc = "new"
    /\ \E d \in Draws :
         \E tb \in Tables(d.order),
            rep \in (IF verbose THEN Reports(NumUsers) ELSE {<<(<<>>), tie>>}) :
            /\ warned' = (alpha = 0)
            /\ data' = tb
            /\ order' = d.order
            /\ U' = InitMatrix(NumUsers, d.seed, 1)
            /\ V' = InitMatrix(NumItems, d.seed, 4)
            /\ sample' = rep[1]
            /\ tie' = rep[2]
    /\ quiet' = [U |-> U', V |-> V', f |-> <<>>, dU |-> VZero, dV |-> VZero]
    /\ step' = 0
    /\ pc' = "epoch"
    /\ UNCHANGED <<steps, alpha, beta, verbose, i, j, items, f, dU, dV, turns, mrr,
                   callVars>>

\* for step in range(steps)
EpochBegin ==
    /\ pc = "epoch"
    /\ MoreEpochs(step, steps)
    /\ i' = 0
    /\ turns' = <<>>
    /\ pc' = "user"
    /\ UNCHANGED <<steps, alpha, beta, verbose, warned, data, order, sample, step, j,
                   items, f, dU, dV, U, V, quiet, mrr, tie, callVars>>

\* for i in range(len(U)): lines 156-160
UserBegin ==
    /\ pc = "user"
    /\ MoreUsers(i, U)
    /\ LET t == user_begin(U, V, data, order, i, beta)
           q == user_begin(quiet.U, quiet.V, data, order, i, beta)
       IN /\ items' = t.items
          /\ f' = t.f
          /\ dU' = t.dU
          /\ quiet' = [quiet EXCEPT !.f = q.f, !.dU = q.dU]
    /\ j' = 0
    /\ turns' = Append(turns, i)
    /\ pc' = "item"
    /\ UNCHANGED <<steps, alpha, beta, verbose, warned, data, order, sample, step, i,
                   dV, U, V, mrr, tie, callVars>>

\* for j in range(len(items)): lines 163-165
ItemGrad ==
    /\ pc = "item"
    /\ MoreItems(j, items)
    /\ dV' = item_grad(V, f, items, j, beta)
    /\ quiet' = [quiet EXCEPT !.dV = item_grad(quiet.V, quiet.f, items, j, beta)]
    /\ pc' = "apply"
    /\ UNCHANGED <<steps, alpha, beta, verbose, warned, data, order, sample, step, i, j,
                   items, f, dU, U, V, turns, mrr, tie, callVars>>

\* lines 168-178
ItemApply ==
    /\ pc = "apply"
    /\ LET t == item_apply(U, V, f, dU, dV, items, j, i, alpha)
           q == item_apply(quiet.U, quiet.V, quiet.f, quiet.dU, quiet.dV, items, j, i, alpha)
       IN /\ V' = t.V
          /\ dU' = t.dU
          /\ f' = t.f
          /\ quiet' = [quiet EXCEPT !.V = q.V, !.dU = q.dU, !.f = q.f]
    /\ j' = j + 1
    /\ pc' = "item"
    /\ UNCHANGED <<steps, alpha, beta, verbose, warned, data, order, sample, step, i,
                   items, dV, U, turns, mrr, tie, callVars>>

\* line 180, once the item loop is exhausted
UserEnd ==
    /\ pc = "item"
    /\ ~MoreItems(j, items)
    /\ U' = user_end(U, i, alpha, dU)
    /\ quiet' = [quiet EXCEPT !.U = user_end(quiet.U, i, alpha, quiet.dU)]
    /\ i' = i + 1
    /\ pc' = "user"
    /\ UNCHANGED <<steps, alpha, beta, verbose, warned, data, order, sample, step, j,
                   items, f, dU, dV, V, turns, mrr, tie, callVars>>

\* lines 182-185, once the user loop is exhausted: the report of a verbose run
EpochEnd ==
    /\ pc = "user"
    /\ ~MoreUsers(i, U)
    /\ IF verbose
       THEN LET r == compute_mrr(data, order, U, V, sample, tie)
            IN /\ mrr' = Append(mrr, r.MRR)
               /\ U' = r.U
               /\ V' = r.V
       ELSE UNCHANGED <<mrr, U, V>>
    /\ step' = step + 1
    /\ pc' = "epoch"
    /\ UNCHANGED <<steps, alpha, beta, verbose, warned, data, order, sample, i, j,
                   items, f, dU, dV, quiet, turns, tie, callVars>>

\* line 187 and CLiMFModel(U, V, order)
Return ==
    /\ pc = "epoch"
    /\ ~MoreEpochs(step, steps)
    /\ pc' = "done"
    /\ UNCHANGED <<steps, alpha, beta, verbose, warned, data, order, sample, step, i, j,
                   items, f, dU, dV, U, V, quiet, turns, mrr, tie, callVars>>

Next ==
    \/ FitStorage
    \/ EpochBegin
    \/ UserBegin
    \/ ItemGrad
    \/ ItemApply
    \/ UserEnd
    \/ EpochEnd
    \/ Return

Spec == InitFit /\ [][Next]_vars

\* =============================================================== prediction
\* A caller's index array: up to MaxBatch rows; the user column holds the first
\* and the last valid index, the indices around num_users and -num_users, and
\* -1; the other column holds 0
UserRefs ==
    {0 - (NumUsers + 1), 0 - NumUsers, 0 - 1, 0, NumUsers - 1, NumUsers, NumUsers + 1}
Arrays(ord) ==
    UNION {[1 .. n -> {Row(ord, u, 0) : u \in UserRefs}] : n \in 1 .. MaxBatch}

\* A caller's Table: data.X holds floats, here in half units (3 is 1.5).  The
\* user column holds whole numbers and the fraction num_users - 0.5
FloatRefs == {2 * u : u \in UserRefs} \cup {2 * NumUsers - 1}
FloatTables(ord) ==
    UNION {[1 .. n -> {Row(ord, u, 0) : u \in FloatRefs}] : n \in 1 .. MaxBatch}

\* The top_k of a call: None, or a number of items up to num_items
TopKs == {NoTopK} \cup (0 .. NumItems)

\* The factors of a trained model: one pair of matrices per seed, entries in
\* quarters from -0.75 to 0.75
Factors(n, seed, salt) ==
    [r \in 0 .. (n - 1) |->
        [k \in Dims |-> ((((seed + 2) * (5 * r + 3 * k + salt)) % 7) - 3) * (Scale \div 4)]]

\* ndarray.astype(int) of one value: towards zero
Trunc(h) == IF h >= 0 THEN h \div 2 ELSE 0 - ((0 - h) \div 2)

\* data.X.astype(int): a new array
astype_int(tb) == [r \in 1 .. Len(tb) |-> [c \in 1 .. Len(tb[r]) |-> Trunc(tb[r][c])]]

\* X[:, self.order[0]]
UserColumn(Xd, ord) == [r \in 1 .. Len(Xd) |-> Xd[r][ord[1]]]

\* X[X >= self.shape[0]] = np.random.randint(low=0, high=self.shape[0])
Substitute(Xc, n, rnd) == [r \in 1 .. Len(Xc) |-> IF Xc[r] >= n THEN rnd ELSE Xc[r]]

\* self.U[X]: numpy takes x in [-n, 0) as n + x and raises IndexError outside
\* [-n, n)
InBounds(x, n) == 0 - n <= x /\ x < n
Resolve(x, n) == IF x < 0 THEN n + x ELSE x

\* (predictions[:, -top_k:]: the tail of the ranking)
TruncateTail(rk, k) == SubSeq(rk, Len(rk) - Min(k, Len(rk)) + 1, Len(rk))

\* predictions[:, :top_k] of one row, top_k >= 0
Truncate(rk, k) == SubSeq(rk, 1, Min(k, Len(rk)))

\* (the substitution is made on a copy: X = X[:, self.order[0]].copy())
predict_copy(Um, Vm, ord, Xd, k, rnd, policy) ==
    LET n == Cardinality(DOMAIN Um)
        Xc == Substitute(UserColumn(Xd, ord), n, rnd)
        full == Ranked(Um, Vm, [r \in 1 .. Len(Xc) |-> Resolve(Xc[r], n)], policy)
    IN IF \A r \in 1 .. Len(Xc) : InBounds(Xc[r], n)
       THEN [data |-> Xd, X |-> Xc, raised |-> None,
             predictions |-> IF k = NoTopK THEN full
                             ELSE [r \in 1 .. Len(full) |-> Truncate(full[r], k)]]
       ELSE [data |-> Xd, X |-> Xc, raised |-> "IndexError", predictions |-> <<>>]

\* CLiMFModel.predict: X is a view of the array it is given, so line 274 writes
\* into that array (data: the array after the call); line 277 raises before
\* anything is returned when an index is out of bounds
predict(Um, Vm, ord, Xd, k, rnd, policy) ==
    LET n == Cardinality(DOMAIN Um)
        Xc == Substitute(UserColumn(Xd, ord), n, rnd)
        written == [r \in 1 .. Len(Xd) |-> [Xd[r] EXCEPT ![ord[1]] = Xc[r]]]
        full == Ranked(Um, Vm, [r \in 1 .. Len(Xc) |-> Resolve(Xc[r], n)], policy)
    IN IF \A r \in 1 .. Len(Xc) : InBounds(Xc[r], n)
       THEN [data |-> written, X |-> Xc, raised |-> None,
             predictions |-> IF k = NoTopK THEN full
                             ELSE [r \in 1 .. Len(full) |-> Truncate(full[r], k)]]
       ELSE [data |-> written, X |-> Xc, raised |-> "IndexError", predictions |-> <<>>]

\* CLiMFModel.__init__: a model around trained factors, and the caller's data
InitPredict ==
    /\ pc = "done"
    /\ \E d \in Draws :
         /\ U = Factors(NumUsers, d.seed, 1)
         /\ V = Factors(NumItems, d.seed, 2)
         /\ order = d.order
    /\ tie \in TiePolicies
    /\ \/ arr \in Arrays(order) /\ tab = <<>>
       \/ arr = <<>> /\ tab \in FloatTables(order)
    /\ steps = 1 /\ alpha = 0 /\ beta = 0 /\ verbose = FALSE /\ warned = FALSE
    /\ data = <<>> /\ sample = <<>>
    /\ step = 0 /\ i = 0 /\ j = 0
    /\ items = <<>> /\ f = <<>> /\ dU = VZero /\ dV = VZero
    /\ quiet = None
    /\ turns = <<>> /\ mrr = <<>>
    /\ NoCall

\* __call__ on an np.ndarray: predict(X=data, top_k=top_k)
CallArray ==
    /\ pc = "done"
    /\ arr # <<>>
    /\ \E k \in TopKs, rnd \in Users :
         \E r \in {predict(U, V, order, arr, k, rnd, tie)} :
            /\ arr' = r.data
            /\ X' = r.X
            /\ raised' = r.raised
            /\ result' = r.predictions
            /\ top_k' = k
    /\ given' = UserColumn(arr, order)
    /\ src' = "array"
    /\ UNCHANGED <<trainVars, U, V, tie, tab>>

\* __call__ on a Table: predict(X=data.X.astype(int), top_k=top_k)
CallTable ==
    /\ pc = "done"
    /\ tab # <<>>
    /\ \E k \in TopKs, rnd \in Users :
         \E r \in {predict(U, V, order, astype_int(tab), k, rnd, tie)} :
            /\ X' = r.X
            /\ raised' = r.raised
            /\ result' = r.predictions
            /\ top_k' = k
    /\ given' = UserColumn(astype_int(tab), order)
    /\ src' = "table"
    /\ UNCHANGED <<trainVars, U, V, tie, arr, tab>>

NextPredict ==
    \/ CallArray
    \/ CallTable

SpecPredict == InitPredict /\ [][NextPredict]_vars

\* =========================================================== training claims
AllUsers == Identity(NumUsers)
WasFit == pc # "new"

\* Lexicographic order on tuples of naturals of one length
RECURSIVE LexLess(_, _)
LexLess(a, b) ==
    /\ a # <<>>
    /\ \/ a[1] < b[1]
       \/ a[1] = b[1] /\ LexLess(Tail(a), Tail(b))

Bit(b) == IF b THEN 1 ELSE 0

\* What is left of the run: epochs, users of the epoch, items of the turn
Variant ==
    <<Bit(pc # "done"), Bit(pc = "new"), steps - step, Bit(pc = "epoch"),
      NumUsers - i, Bit(pc = "user"), Len(items) - j, Bit(pc = "item")>>

\* C4: training ends after exactly `steps` epochs, and every epoch takes the
\* turn of every user 0 .. num_users-1 once, in ascending order.  Termination:
\* no step leaves the loops' ranges, every step makes Variant smaller in a
\* well-founded order, and the run is over only at pc = "done", where `steps`
\* epochs have been counted.
C4_FixedBudget ==
    /\ [](/\ pc \in {"new", "epoch", "user", "item", "apply", "done"}
          /\ step \in 0 .. steps
          /\ i \in 0 .. NumUsers
          /\ j \in 0 .. Len(items)
          /\ pc = "apply" => j < Len(items)
          /\ pc = "done" => step = steps
          /\ turns = [p \in 1 .. Len(turns) |-> p - 1])
    /\ [][/\ LexLess(Variant', Variant)
          /\ step' # step => step' = step + 1 /\ turns = AllUsers /\ turns' = turns
          /\ pc' = "done" => step = steps]_vars

C4_Witness ==
    /\ pc = "done"
    /\ steps = MaxSteps
    /\ step = MaxSteps
    /\ turns = AllUsers
    /\ alpha # 0
    /\ Len(data) = MaxRows

\* C5: with alpha = 0 the fit warns and still runs every epoch, and U and V
\* keep their initial values throughout: no step changes an entry, every entry
\* is finite and lies in the range [0, 0.01) of the random start.
C5_AlphaZero ==
    /\ [](alpha = 0 /\ WasFit =>
            /\ warned
            /\ \A u \in Users, k \in Dims : Fin(U[u][k]) /\ U[u][k] \in 0 .. (Scale \div 100 - 1)
            /\ \A it \in ItemIds, k \in Dims : Fin(V[it][k]) /\ V[it][k] \in 0 .. (Scale \div 100 - 1)
            /\ pc = "done" => step = steps)
    /\ [][alpha = 0 /\ WasFit => U' = U /\ V' = V]_vars

C5_Witness ==
    /\ pc = "done"
    /\ alpha = 0
    /\ warned
    /\ step = MaxSteps
    /\ Len(data) = MaxRows
    /\ \E u \in Users : dU # VZero

\* C6: a verbose run and the run without reports, started from the same table,
\* hyperparameters and initial U and V, hold the same U and V in every state
\* (so after every epoch, and when the factors are returned).
C6_VerboseObservational ==
    WasFit => U = quiet.U /\ V = quiet.V

C6_Witness ==
    /\ pc = "done"
    /\ verbose
    /\ Len(mrr) = MaxSteps
    /\ alpha # 0
    /\ Len(data) = MaxRows
    /\ \E r \in 1 .. Len(mrr) : mrr[r] > 0

\* The turn of a user without interactions ends here
EmptyTurnEnds == pc = "item" /\ items = <<>> /\ pc' = "user"

\* C7 as stated: the turn of a user without interactions leaves U[i] (and V)
\* as they were
C7_NoInteractionNoUpdate ==
    [][EmptyTurnEnds => U' = U /\ V' = V]_vars

\* C7 as amended: the turn of a user without interactions applies the
\* regularization step alone, U[i] += alpha * (-beta * U[i]), changes no other
\* row of U and no row of V
C7_RegularizationOnly ==
    [][/\ pc = "user" /\ pc' = "item" => U' = U /\ V' = V
       /\ EmptyTurnEnds =>
            /\ U' = [U EXCEPT ![i] = VAdd(@, VScale(alpha, VScale(Neg(beta), @)))]
            /\ V' = V]_vars

C7_Witness ==
    /\ pc = "user"
    /\ i >= 1
    /\ items = <<>>
    /\ alpha # 0
    /\ beta # 0
    /\ U[i - 1] # quiet.dU
    /\ \E k \in Dims : quiet.dU[k] < 0

\* C8 as stated: before the ranking correction, component k of dV is
\* sigmoid(-f[j]) * U[i][k] - beta * V[w][k]
C8_DirectTermScalesU ==
    pc = "apply" =>
        dV = [k \in Dims |->
                Sub(Mul(sigmoid(Neg(f[j + 1])), U[i][k]), Mul(beta, V[items[j + 1]][k]))]

\* C9: the scores f of a turn are those of U[i] and V at its start and stay as
\* they are while the items are processed; an item's step writes V[w] and its
\* dU reads the written row; U changes only at the end of a turn, by
\* U[i] += alpha * dU.
C9_TurnOrder ==
    [][/\ pc = "user" /\ pc' = "item" =>
            /\ f' = Scores(U[i], V, items')
            /\ U' = U /\ V' = V
       /\ pc \in {"item", "apply"} => f' = f /\ items' = items
       /\ pc = "item" /\ pc' = "apply" => U' = U /\ V' = V /\ dU' = dU
       /\ pc = "apply" =>
            /\ V' = UpdateV(V, items[j + 1], alpha, dV, f, j, U[i])
            /\ dU' = AccumulateU(dU, V', items, f, j)
            /\ U' = U
       /\ WasFit /\ U' # U =>
            /\ pc = "item" /\ j = Len(items)
            /\ U' = UpdateU(U, i, alpha, dU)]_vars

C9_Witness ==
    /\ pc = "item"
    /\ j = 2
    /\ Len(items) = 2
    /\ alpha # 0
    /\ f # Scores(U[i], V, items)
    /\ dU # AccumulateU(InitUserGrad(beta, U[i]), V, items, f, 1)

\* ========================================================= prediction claims
Called == src # None
InRange(col) == \A r \in 1 .. Len(col) : col[r] \in Users

\* Score of item `it` for the user that row r of the last call was scored as
ScoreOf(r, it) == Dot(U[Resolve(X[r], NumUsers)], V[it])

\* C1 as stated: whatever the batch, every user index outside [0, num_users)
\* has been replaced by one inside it before scoring, the call does not fail,
\* and it returns one ranking per user, of length num_items, or top_k when
\* given
C1_OutOfRangeReplaced ==
    Called =>
        /\ raised = None
        /\ InRange(X)
        /\ Len(result) = Len(given)
        /\ \A r \in 1 .. Len(result) :
              Len(result[r]) = IF top_k = NoTopK THEN NumItems ELSE top_k

\* What predict(..., top_k=None) returns for the users of the last call
FullRanking ==
    predict(U, V, order, [r \in 1 .. Len(given) |-> Row(order, given[r], 0)],
            NoTopK, 0, tie).predictions

\* C2: for a batch of in-range users and a top_k <= num_items, the call
\* returns exactly top_k items per user, the first top_k items of the ranking
\* that predict(..., top_k=None) returns for that user.
C2_TopKPrefix ==
    Called /\ top_k # NoTopK /\ top_k <= NumItems /\ InRange(given) =>
        /\ raised = None
        /\ Len(result) = Len(given)
        /\ \A r \in 1 .. Len(result) :
              /\ Len(result[r]) = top_k
              /\ result[r] = SubSeq(FullRanking[r], 1, top_k)

C2_Witness ==
    /\ src = "array"
    /\ top_k = 1
    /\ top_k < NumItems
    /\ Len(given) = MaxBatch
    /\ InRange(given)
    /\ Len(result) = MaxBatch
    /\ result[1] # result[2]
    /\ result[1] # FullRanking[1]

\* C3 as stated: the call returns one ranking per input user, in the order of
\* the input; with top_k=None each ranking is a permutation of the items in
\* which a strictly higher score comes before a strictly lower one
C3_OneRankingPerUser ==
    Called =>
        /\ raised = None
        /\ Len(result) = Len(given)
        /\ top_k = NoTopK =>
              \A r \in 1 .. Len(result) :
                 /\ Len(result[r]) = NumItems
                 /\ {result[r][p] : p \in 1 .. NumItems} = ItemIds
                 /\ \A p, q \in 1 .. NumItems :
                       ScoreOf(r, result[r][p]) > ScoreOf(r, result[r][q]) => p < q

\* C10: a call changes neither U, V nor order.  A call on an index array
\* overwrites, in the caller's array, every user entry >= num_users with one
\* index of [0, num_users), the same for all of them, and changes nothing
\* else; after it no entry >= num_users is left, so the next call on the array
\* leaves it as it is.  A call on a Table changes neither the Table nor the
\* array.
C10_InPlaceSubstitution ==
    /\ [](src = "array" => \A r \in 1 .. Len(arr) : arr[r][order[1]] < NumUsers)
    /\ [][/\ U' = U /\ V' = V /\ order' = order
          /\ src' = "array" =>
                /\ tab' = tab
                /\ \E rnd \in Users :
                      arr' = [r \in 1 .. Len(arr) |->
                                 [arr[r] EXCEPT ![order[1]] = IF @ >= NumUsers THEN rnd ELSE @]]
          /\ src = "array" /\ src' = "array" => arr' = arr
          /\ src' = "table" => arr' = arr /\ tab' = tab]_vars

C10_Witness ==
    /\ src = "array"
    /\ Len(given) = MaxBatch
    /\ given[1] >= NumUsers
    /\ given[2] > given[1]
    /\ UserColumn(arr, order) # given
    /\ arr[1] = arr[2]
    /\ arr[1][order[1]] = NumUsers - 1

====
